---- MODULE Spec2Model ----
(***************************************************************************)
(* Model of the Codex CLI management commands of src-tauri/src/codex_cli:  *)
(* the install pipeline install_codex_cli with its helpers, run by one or  *)
(* two callers against a shared filesystem, interleaved with chat sessions *)
(* that start and stop at any time; and the query commands and pure        *)
(* helpers of the same module (check_codex_cli_installed,                  *)
(* check_codex_cli_auth, get_available_codex_versions, the extraction and  *)
(* string helpers), each applied to one input.                             *)
(*                                                                         *)
(* Strings the code takes apart (tags, versions) are sequences of          *)
(* one-character strings; file names are records [stem, ext].              *)
(***************************************************************************)
EXTENDS Naturals, Sequences, FiniteSets, TLC

VARIABLES
    target,     \* [os, arch]: the cfg(target_os, target_arch) facts of the build
    callers,    \* the callers that may invoke install_codex_cli in this run
    sessions,   \* number of entries of crate::chat::registry::get_running_sessions()
    cliDir,     \* whether the install directory (app_data_dir/codex-cli) exists
    binary,     \* the file at get_codex_cli_binary_path: [state, payload, mode]
    temp,       \* the scratch directory cli_dir/temp: [exists, files]
    pc,         \* per caller: position inside install_codex_cli
    arg,        \* per caller: the `version: Option<String>` argument
    version,    \* per caller: the local `version` after version selection
    archive,    \* per caller: the downloaded archive_content
    extracted,  \* per caller: extracted_binary_path (a file name inside temp)
    copySrc,    \* per caller: the source file std::fs::copy is reading
    verOut,     \* per caller: version_output, [run, success, stderr]
    result,     \* per caller: the Result<(), String> returned
    events,     \* per caller: the calls of emit_progress, in order
    log,        \* per caller: every effect of the attempt, in order
    query,      \* the query command or helper being run: [op, input]
    reply       \* what it returned

vars == <<target, callers, sessions, cliDir, binary, temp, pc, arg, version,
          archive, extracted, copySrc, verOut, result, events, log, query,
          reply>>

\* What no step of an install changes
fixed == <<target, callers, query, reply>>

-----------------------------------------------------------------------------
(* Bounds of the model *)

MaxSessions == 2

\* Longest tag or version output given to the string helpers
MaxTextLen == 4

\* Longest release catalog given to get_available_codex_versions
MaxReleases == 7

Procs == {"a", "b"}

-----------------------------------------------------------------------------
(* Strings as sequences of characters *)

\* The characters of the strings: the letter v, a decimal digit, the dot, a
\* whitespace character and another letter
Chars == {"v", "1", ".", " ", "a"}

Texts == UNION { [1..n -> Chars] : n \in 0..MaxTextLen }

\* char::is_whitespace, char::is_ascii_digit
IsWhitespace(c) == c = " "
IsAsciiDigit(c) == c = "1"

\* strip_prefix as it would be if it removed every leading 'v'
RECURSIVE StripPrefixVAll(_)
StripPrefixVAll(s) ==
    IF Len(s) > 0 /\ Head(s) = "v" THEN StripPrefixVAll(Tail(s)) ELSE s

\* str::strip_prefix('v').unwrap_or(s): removes one leading 'v', if any
StripPrefixV(s) == IF Len(s) > 0 /\ Head(s) = "v" THEN Tail(s) ELSE s

\* trim_start_matches as it would be if it removed one leading 'v' only
TrimStartOneV(w) == IF Len(w) > 0 /\ Head(w) = "v" THEN Tail(w) ELSE w

\* str::trim_start_matches('v'): removes every leading 'v'
RECURSIVE TrimStartMatchesV(_)
TrimStartMatchesV(w) ==
    IF Len(w) > 0 /\ Head(w) = "v" THEN TrimStartMatchesV(Tail(w)) ELSE w

\* Length of the leading run of non-whitespace characters of s
RECURSIVE WordLen(_)
WordLen(s) ==
    IF s = << >> \/ IsWhitespace(Head(s)) THEN 0 ELSE 1 + WordLen(Tail(s))

\* str::split_whitespace: the words of s, in order, none of them empty
RECURSIVE SplitWhitespace(_)
SplitWhitespace(s) ==
    IF s = << >> THEN << >>
    ELSE IF IsWhitespace(Head(s)) THEN SplitWhitespace(Tail(s))
    ELSE <<SubSeq(s, 1, WordLen(s))>>
             \o SplitWhitespace(SubSeq(s, WordLen(s) + 1, Len(s)))

\* str::contains('.')
ContainsDot(w) == \E i \in 1..Len(w) : w[i] = "."

\* commands.rs lines 17-23: starts with an ASCII digit and contains a dot
LooksLikeVersion(trimmed) ==
    /\ (IF trimmed = << >> THEN FALSE ELSE IsAsciiDigit(Head(trimmed)))
    /\ ContainsDot(trimmed)

\* commands.rs lines 15-28: the loop over the words, first match returns
RECURSIVE FirstVersion(_, _)
FirstVersion(words, version_str) ==
    IF words = << >> THEN version_str
    ELSE IF LooksLikeVersion(TrimStartMatchesV(Head(words)))
         THEN TrimStartMatchesV(Head(words))
         ELSE FirstVersion(Tail(words), version_str)

\* commands.rs lines 13-32
ExtractVersionNumber(version_str) ==
    FirstVersion(SplitWhitespace(version_str), version_str)

\* str::trim_start, str::trim_end, str::trim
RECURSIVE TrimStart(_)
TrimStart(s) ==
    IF s # << >> /\ IsWhitespace(Head(s)) THEN TrimStart(Tail(s)) ELSE s

RECURSIVE TrimEnd(_)
TrimEnd(s) ==
    IF s # << >> /\ IsWhitespace(s[Len(s)])
    THEN TrimEnd(SubSeq(s, 1, Len(s) - 1)) ELSE s

Trim(s) == TrimEnd(TrimStart(s))

\* The versions a caller may pass, and the tag_name values the latest endpoint
\* may answer with.
ArgVersions == { <<"1">>, <<"2">> }
LatestTags == { <<"v", "1">>, <<"2">> }
NoVersion == << >>
\* Option<String>
None == [some |-> FALSE, value |-> NoVersion]
Some(v) == [some |-> TRUE, value |-> v]

-----------------------------------------------------------------------------
(* Platform *)

Targets ==
    { [os |-> "macos",   arch |-> "aarch64"],
      [os |-> "macos",   arch |-> "x86_64"],
      [os |-> "linux",   arch |-> "x86_64"],
      [os |-> "linux",   arch |-> "aarch64"],
      [os |-> "windows", arch |-> "x86_64"],
      [os |-> "windows", arch |-> "aarch64"],
      [os |-> "freebsd", arch |-> "x86_64"],
      [os |-> "linux",   arch |-> "riscv64"],
      [os |-> "windows", arch |-> "x86"] }

\* cfg(unix)
IsUnix(os) == os \in {"macos", "linux", "freebsd"}

PlatformOk(p, e) == [ok |-> TRUE, platform |-> p, ext |-> e]
PlatformErr == [ok |-> FALSE, platform |-> "", ext |-> ""]

\* get_codex_platform as it would be if the Windows arms tested the operating
\* system alone
GetCodexPlatformByOs(os, arch) ==
    CASE os = "macos"   /\ arch = "aarch64" -> PlatformOk("aarch64-apple-darwin", "tar.gz")
      [] os = "macos"   /\ arch = "x86_64"  -> PlatformOk("x86_64-apple-darwin", "tar.gz")
      [] os = "linux"   /\ arch = "x86_64"  -> PlatformOk("x86_64-unknown-linux-musl", "tar.gz")
      [] os = "linux"   /\ arch = "aarch64" -> PlatformOk("aarch64-unknown-linux-musl", "tar.gz")
      [] os = "windows" /\ arch = "aarch64" -> PlatformOk("aarch64-pc-windows-msvc", "zip")
      [] os = "windows" -> PlatformOk("x86_64-pc-windows-msvc", "zip")
      [] OTHER -> PlatformErr

\* lines 180-214: one cfg arm per supported (target_os, target_arch)
GetCodexPlatform(os, arch) ==
    CASE os = "macos"   /\ arch = "aarch64" -> PlatformOk("aarch64-apple-darwin", "tar.gz")
      [] os = "macos"   /\ arch = "x86_64"  -> PlatformOk("x86_64-apple-darwin", "tar.gz")
      [] os = "linux"   /\ arch = "x86_64"  -> PlatformOk("x86_64-unknown-linux-musl", "tar.gz")
      [] os = "linux"   /\ arch = "aarch64" -> PlatformOk("aarch64-unknown-linux-musl", "tar.gz")
      [] os = "windows" /\ arch = "x86_64"  -> PlatformOk("x86_64-pc-windows-msvc", "zip")
      [] os = "windows" /\ arch = "aarch64" -> PlatformOk("aarch64-pc-windows-msvc", "zip")
      [] OTHER -> PlatformErr

-----------------------------------------------------------------------------
(* Files *)

Mode755 == 493
Mode644 == 420

Absent == [state |-> "absent", payload |-> NoVersion, mode |-> 0]
\* A binary left by an earlier successful install
OldBinary == [state |-> "complete", payload |-> <<"0">>, mode |-> Mode755]

NoTemp == [exists |-> FALSE, files |-> {}]

FileName(stem, ext) == [stem |-> stem, ext |-> ext]
NoFile == FileName("", "")

\* format!("codex-{}", platform) resp. format!("codex-{}.exe", platform)
ZipBinaryName(os, platform) ==
    IF os = "windows" THEN FileName("codex-" \o platform, "exe")
    ELSE FileName("codex-" \o platform, "")

TarBinaryName(platform) == FileName("codex-" \o platform, "")

\* A regular file of a directory, and a subdirectory of it
File(name, payload, mode) ==
    [name |-> name, payload |-> payload, mode |-> mode, dir |-> FALSE]
Dir(name) == [name |-> name, payload |-> NoVersion, mode |-> Mode755, dir |-> TRUE]

\* Writing `new` into a directory holding `old`: same-named files are replaced
Overwrite(old, new) ==
    {f \in old : \A g \in new : g.name # f.name} \cup new

\* A file cannot be written over a directory, nor a directory made over a file
Clash(old, new) ==
    \E f \in old, g \in new : f.name = g.name /\ f.dir # g.dir

-----------------------------------------------------------------------------
(* Archives and their extraction *)

Readme == FileName("README", "md")
Tool == FileName("tool", "exe")

\* What the download URL of `ver` for this platform may answer with
Archives(ver, os, platform) ==
    LET name == ZipBinaryName(os, platform)
        arc(c, fs) == [payload |-> ver, corrupt |-> c, files |-> fs]
    IN  { arc(TRUE, {}),
          arc(FALSE, {File(name, ver, Mode755)}),
          arc(FALSE, {File(name, ver, Mode644), File(Readme, ver, Mode644)}),
          arc(FALSE, {File(Readme, ver, Mode644)}),
          arc(FALSE, {File(Tool, ver, Mode755)}),
          arc(FALSE, {Dir(TarBinaryName(platform))}),
          arc(FALSE, {}) }

NoArchive == [payload |-> NoVersion, corrupt |-> FALSE, files |-> {}]

Extracted(path, fs) == [ok |-> TRUE, error |-> "", path |-> path, files |-> fs]
ExtractErr(e, fs) == [ok |-> FALSE, error |-> e, path |-> NoFile, files |-> fs]

\* Path::exists: true of a directory as well
HasFile(fs, name) == \E f \in fs : f.name = name

\* Path::is_file
HasRegular(fs, name) == \E f \in fs : f.name = name /\ ~f.dir

\* std::fs::File::create gives the new file the default mode
Created(fs) == {IF f.dir THEN f ELSE File(f.name, f.payload, Mode644) : f \in fs}

\* path.extension() == "exe" on Windows, any regular file elsewhere
IsExecutable(os, name) == IF os = "windows" THEN name.ext = "exe" ELSE TRUE

\* The outcomes of extract_zip on `arc` into a directory holding dirFiles
ExtractZip(arc, dirFiles, os, platform) ==
    IF arc.corrupt THEN {ExtractErr("Failed to open zip archive", dirFiles)}
    ELSE
      LET fs == Overwrite(dirFiles, Created(arc.files))
          name == ZipBinaryName(os, platform)
          candidates == {f \in fs : ~f.dir /\ IsExecutable(os, f.name)}
      IN  \* an entry that cannot be written ends the extraction there
          { ExtractErr("Failed to extract file", Overwrite(dirFiles, Created(w)))
              : w \in {w \in (SUBSET arc.files) \ {arc.files} : ~Clash(dirFiles, w)} }
          \cup
          ( IF Clash(dirFiles, arc.files) THEN {}
            ELSE IF HasFile(fs, name) THEN {Extracted(name, fs)}
            ELSE IF candidates = {}
                 THEN {ExtractErr("Binary not found in archive", fs)}
                 ELSE {Extracted(f.name, fs) : f \in candidates}
                      \cup {ExtractErr("Failed to read temp directory", fs)} )

\* The outcomes of extract_tar_gz
ExtractTarGz(arc, dirFiles, platform) ==
    IF arc.corrupt THEN {ExtractErr("Failed to extract tar.gz archive", dirFiles)}
    ELSE
      LET fs == Overwrite(dirFiles, arc.files)
          name == TarBinaryName(platform)
      IN  { ExtractErr("Failed to extract tar.gz archive", Overwrite(dirFiles, w))
              : w \in {w \in (SUBSET arc.files) \ {arc.files} : ~Clash(dirFiles, w)} }
          \cup
          ( IF Clash(dirFiles, arc.files) THEN {}
            ELSE IF HasFile(fs, name) THEN {Extracted(name, fs)}
            ELSE {ExtractErr("Binary not found in archive", fs)} )

-----------------------------------------------------------------------------
(* Results, events and the effect log *)

Pending == [kind |-> "none", error |-> "", detail |-> "", count |-> 0]
Ok == [kind |-> "ok", error |-> "", detail |-> "", count |-> 0]
Err(e, d) == [kind |-> "err", error |-> e, detail |-> d, count |-> 0]
Busy(n) ==
    [kind |-> "err", error |-> "Cannot install Codex CLI while sessions running",
     detail |-> IF n = 1 THEN "session is" ELSE "sessions are", count |-> n]

Effect(op, what, out) == [op |-> op, what |-> what, out |-> out]

Logged(p, op, what, out) ==
    log' = [log EXCEPT ![p] = Append(@, Effect(op, what, out))]

Goto(p, l) == pc' = [pc EXCEPT ![p] = l]

\* the step succeeded: go on with the next one
Continue(p, l) == Goto(p, l) /\ UNCHANGED result

\* `return Err(..)` or `?`
Return(p, r) == Goto(p, "done") /\ result' = [result EXCEPT ![p] = r]

\* emit_progress: the event is built and handed to app.emit_all, whose failure
\* is logged and dropped
EmitProgress(p, stage, percent) ==
    \E delivered \in BOOLEAN :
        /\ events' = [events EXCEPT ![p] =
                        Append(@, [stage |-> stage, percent |-> percent,
                                   delivered |-> delivered])]
        /\ Logged(p, "emit", stage, IF delivered THEN "delivered" ELSE "lost")

-----------------------------------------------------------------------------
(* The session registry (crate::chat::registry) *)

SessionStart ==
    /\ sessions < MaxSessions
    /\ sessions' = sessions + 1
    /\ UNCHANGED <<fixed, cliDir, binary, temp, pc, arg, version,
                   archive, extracted, copySrc, verOut, result, events, log>>

SessionStop ==
    /\ sessions > 0
    /\ sessions' = sessions - 1
    /\ UNCHANGED <<fixed, cliDir, binary, temp, pc, arg, version,
                   archive, extracted, copySrc, verOut, result, events, log>>

-----------------------------------------------------------------------------
(* install_codex_cli, step by step *)

\* The command is invoked with `version`
Call(p) ==
    /\ pc[p] = "idle"
    /\ p \in callers
    /\ \E v \in {None} \cup {Some(w) : w \in ArgVersions} :
          arg' = [arg EXCEPT ![p] = v]
    /\ Goto(p, "guard")
    /\ UNCHANGED <<fixed, sessions, cliDir, binary, temp, version,
                   archive, extracted, copySrc, verOut, result, events, log>>

\* Guard as it would be with the directory ensured before the check
GuardAfterDir(p) ==
    /\ pc[p] = "guard"
    /\ cliDir' = TRUE
    /\ Logged(p, "fs", "mkdir_cli", IF cliDir THEN "exists" ELSE "created")
    /\ IF sessions # 0
       THEN Return(p, Busy(sessions))
       ELSE Continue(p, "ensure_dir")
    /\ UNCHANGED <<fixed, sessions, binary, temp, arg,
                   version, archive, extracted, copySrc, verOut, events>>

\* Guard as it would be if it also refused while another install is in flight
GuardExclusive(p) ==
    /\ pc[p] = "guard"
    /\ IF sessions # 0
       THEN Return(p, Busy(sessions))
       ELSE IF \E q \in Procs \ {p} : pc[q] \notin {"idle", "done"}
       THEN Return(p, Err("Another install is in progress", ""))
       ELSE Continue(p, "ensure_dir")
    /\ UNCHANGED <<fixed, sessions, cliDir, binary, temp, arg,
                   version, archive, extracted, copySrc, verOut, events, log>>

\* lines 221-230: refuse while sessions are running
Guard(p) ==
    /\ pc[p] = "guard"
    /\ IF sessions # 0
       THEN Return(p, Busy(sessions))
       ELSE Continue(p, "ensure_dir")
    /\ UNCHANGED <<fixed, sessions, cliDir, binary, temp, arg,
                   version, archive, extracted, copySrc, verOut, events, log>>

\* lines 232-233: ensure_codex_cli_dir; get_codex_cli_binary_path cannot fail
\* once the directory path was resolved
EnsureDir(p) ==
    /\ pc[p] = "ensure_dir"
    /\ \/ /\ cliDir' = TRUE
          /\ Logged(p, "fs", "mkdir_cli", IF cliDir THEN "exists" ELSE "created")
          /\ Continue(p, "emit_starting")
       \/ /\ ~cliDir
          /\ UNCHANGED cliDir
          /\ Logged(p, "fs", "mkdir_cli", "failed")
          /\ Return(p, Err("Failed to create Codex CLI directory", ""))
       \/ /\ UNCHANGED cliDir
          /\ Logged(p, "local", "app_data_dir", "failed")
          /\ Return(p, Err("Failed to get app data directory", ""))
    /\ UNCHANGED <<fixed, sessions, binary, temp, arg, version,
                   archive, extracted, copySrc, verOut, events>>

\* line 236
EmitStarting(p) ==
    /\ pc[p] = "emit_starting"
    /\ EmitProgress(p, "starting", 0)
    /\ Continue(p, "select_version")
    /\ UNCHANGED <<fixed, sessions, cliDir, binary, temp, arg,
                   version, archive, extracted, copySrc, verOut>>

\* FetchLatest as it would be with a failed request sent once more
FetchLatestRetries(p) ==
    \/ /\ UNCHANGED version
       /\ log' = [log EXCEPT ![p] = @ \o <<Effect("net", "latest", "transport"),
                                            Effect("net", "latest", "transport")>>]
       /\ Return(p, Err("Failed to fetch latest release", "transport"))
    \/ \E tag \in LatestTags :
          /\ version' = [version EXCEPT ![p] = StripPrefixV(tag)]
          /\ \/ Logged(p, "net", "latest", "ok")
             \/ log' = [log EXCEPT ![p] = @ \o <<Effect("net", "latest", "transport"),
                                                  Effect("net", "latest", "ok")>>]
          /\ Continue(p, "platform")

\* fetch_latest_codex_version: one GET of {CODEX_RELEASES_API}/latest
FetchLatest(p) ==
    \/ /\ UNCHANGED version
       /\ Logged(p, "local", "client", "failed")
       /\ Return(p, Err("Failed to create HTTP client", ""))
    \/ /\ UNCHANGED version
       /\ Logged(p, "net", "latest", "transport")
       /\ Return(p, Err("Failed to fetch latest release", "transport"))
    \/ /\ UNCHANGED version
       /\ Logged(p, "net", "latest", "status")
       /\ Return(p, Err("Failed to fetch latest release", "HTTP status"))
    \/ /\ UNCHANGED version
       /\ Logged(p, "net", "latest", "body")
       /\ Return(p, Err("Failed to parse release info", ""))
    \/ \E tag \in LatestTags :
          /\ version' = [version EXCEPT ![p] = StripPrefixV(tag)]
          /\ Logged(p, "net", "latest", "ok")
          /\ Continue(p, "platform")

\* lines 238-242: the caller's version, else the latest release
SelectVersion(p) ==
    /\ pc[p] = "select_version"
    /\ IF arg[p].some
       THEN /\ version' = [version EXCEPT ![p] = arg[p].value]
            /\ Continue(p, "platform")
            /\ UNCHANGED log
       ELSE FetchLatest(p)
    /\ UNCHANGED <<fixed, sessions, cliDir, binary, temp, arg,
                   archive, extracted, copySrc, verOut, events>>

\* lines 244-255
ResolvePlatform(p) ==
    /\ pc[p] = "platform"
    /\ IF GetCodexPlatform(target.os, target.arch).ok
       THEN /\ Logged(p, "local", "platform", "ok")
            /\ Continue(p, "emit_downloading")
       ELSE /\ Logged(p, "local", "platform", "unsupported")
            /\ Return(p, Err("Unsupported platform", ""))
    /\ UNCHANGED <<fixed, sessions, cliDir, binary, temp, arg,
                   version, archive, extracted, copySrc, verOut, events>>

\* line 258
EmitDownloading(p) ==
    /\ pc[p] = "emit_downloading"
    /\ EmitProgress(p, "downloading", 20)
    /\ Continue(p, "download")
    /\ UNCHANGED <<fixed, sessions, cliDir, binary, temp, arg,
                   version, archive, extracted, copySrc, verOut>>

\* lines 260-284: one GET of the download URL of v{version}
Download(p) ==
    /\ pc[p] = "download"
    /\ \/ /\ UNCHANGED archive
          /\ Logged(p, "local", "client", "failed")
          /\ Return(p, Err("Failed to create HTTP client", ""))
       \/ /\ UNCHANGED archive
          /\ Logged(p, "net", "download", "transport")
          /\ Return(p, Err("Failed to download Codex CLI", "transport"))
       \/ /\ UNCHANGED archive
          /\ Logged(p, "net", "download", "status")
          /\ Return(p, Err("Failed to download Codex CLI", "HTTP status"))
       \/ /\ UNCHANGED archive
          /\ Logged(p, "net", "download", "body")
          /\ Return(p, Err("Failed to read archive content", ""))
       \/ \E a \in Archives(version[p], target.os,
                            GetCodexPlatform(target.os, target.arch).platform) :
             /\ archive' = [archive EXCEPT ![p] = a]
             /\ Logged(p, "net", "download", "ok")
             /\ Continue(p, "emit_extracting")
    /\ UNCHANGED <<fixed, sessions, cliDir, binary, temp, arg,
                   version, extracted, copySrc, verOut, events>>

\* EmitExtracting as it would be with the emit_progress call left out
EmitExtractingSkipped(p) ==
    /\ pc[p] = "emit_extracting"
    /\ Continue(p, "create_temp")
    /\ UNCHANGED <<fixed, sessions, cliDir, binary, temp, arg,
                   version, archive, extracted, copySrc, verOut, events, log>>

\* line 287
EmitExtracting(p) ==
    /\ pc[p] = "emit_extracting"
    /\ EmitProgress(p, "extracting", 40)
    /\ Continue(p, "create_temp")
    /\ UNCHANGED <<fixed, sessions, cliDir, binary, temp, arg,
                   version, archive, extracted, copySrc, verOut>>


\* CreateTemp as it would be if it emptied the install directory to make room
CreateTempWipes(p) ==
    /\ pc[p] = "create_temp"
    /\ \/ /\ temp' = [temp EXCEPT !.exists = TRUE]
          /\ cliDir' = TRUE
          /\ binary' = Absent
          /\ Logged(p, "fs", "mkdir_temp",
                    IF temp.exists THEN "exists" ELSE "created")
          /\ Continue(p, "extract")
       \/ /\ ~temp.exists
          /\ UNCHANGED <<temp, cliDir, binary>>
          /\ Logged(p, "fs", "mkdir_temp", "failed")
          /\ Return(p, Err("Failed to create temp directory", ""))
    /\ UNCHANGED <<fixed, sessions, arg, version, archive,
                   extracted, copySrc, verOut, events>>

\* lines 289-292: create_dir_all(cli_dir/temp), which also creates cli_dir
CreateTemp(p) ==
    /\ pc[p] = "create_temp"
    /\ \/ /\ temp' = [temp EXCEPT !.exists = TRUE]
          /\ cliDir' = TRUE
          /\ Logged(p, "fs", "mkdir_temp",
                    IF temp.exists THEN "exists" ELSE "created")
          /\ Continue(p, "extract")
       \/ /\ ~temp.exists
          /\ UNCHANGED <<temp, cliDir>>
          /\ Logged(p, "fs", "mkdir_temp", "failed")
          /\ Return(p, Err("Failed to create temp directory", ""))
    /\ UNCHANGED <<fixed, sessions, binary, arg, version, archive,
                   extracted, copySrc, verOut, events>>

\* lines 294-299: extract_zip or extract_tar_gz into the scratch directory;
\* both create the directory again when it is gone
Extract(p) ==
    /\ pc[p] = "extract"
    /\ LET plat == GetCodexPlatform(target.os, target.arch)
           outs == IF plat.ext = "zip"
                   THEN ExtractZip(archive[p], temp.files, target.os, plat.platform)
                   ELSE ExtractTarGz(archive[p], temp.files, plat.platform)
       IN  \E r \in outs :
             /\ temp' = [exists |-> temp.exists \/ plat.ext # "zip" \/ r.files # {},
                         files |-> r.files]
             /\ IF r.ok
                THEN /\ extracted' = [extracted EXCEPT ![p] = r.path]
                     /\ Logged(p, "fs", "extract", "ok")
                     /\ Continue(p, "emit_installing")
                ELSE /\ UNCHANGED extracted
                     /\ Logged(p, "fs", "extract", "failed")
                     /\ Return(p, Err(r.error, ""))
    /\ UNCHANGED <<fixed, sessions, cliDir, binary, arg, version,
                   archive, copySrc, verOut, events>>

\* EmitInstalling as it would be with the copy started above the emit
EmitInstallingAfterCopy(p) ==
    /\ pc[p] = "emit_installing"
    /\ \E src \in {f \in temp.files : f.name = extracted[p]}, delivered \in BOOLEAN :
          /\ copySrc' = [copySrc EXCEPT ![p] = src]
          /\ binary' = [state |-> "partial", payload |-> src.payload,
                        mode |-> src.mode]
          /\ events' = [events EXCEPT ![p] =
                          Append(@, [stage |-> "installing", percent |-> 60,
                                     delivered |-> delivered])]
          /\ log' = [log EXCEPT ![p] =
                       @ \o <<Effect("fs", "copy", "opened"),
                              Effect("emit", "installing",
                                     IF delivered THEN "delivered" ELSE "lost")>>]
    /\ Continue(p, "copying")
    /\ UNCHANGED <<fixed, sessions, cliDir, temp, arg,
                   version, archive, extracted, verOut>>

\* line 302
EmitInstalling(p) ==
    /\ pc[p] = "emit_installing"
    /\ EmitProgress(p, "installing", 60)
    /\ Continue(p, "copy")
    /\ UNCHANGED <<fixed, sessions, cliDir, binary, temp, arg,
                   version, archive, extracted, copySrc, verOut>>

NoSource == File(NoFile, NoVersion, 0)

\* lines 304-306, first half: std::fs::copy opens the source, then opens the
\* destination for writing, which truncates it
CopyBegin(p) ==
    /\ pc[p] = "copy"
    /\ IF ~(temp.exists /\ HasRegular(temp.files, extracted[p]))
       THEN /\ UNCHANGED <<binary, copySrc>>
            /\ Logged(p, "fs", "copy", "no_source")
            /\ Return(p, Err("Failed to copy binary", "source"))
       ELSE \/ /\ UNCHANGED <<binary, copySrc>>
               /\ Logged(p, "fs", "copy", "open_failed")
               /\ Return(p, Err("Failed to copy binary", "destination"))
            \/ \E src \in {f \in temp.files : f.name = extracted[p]} :
                  /\ copySrc' = [copySrc EXCEPT ![p] = src]
                  /\ binary' = [state |-> "partial", payload |-> src.payload,
                                mode |-> IF binary.state = "absent"
                                         THEN src.mode ELSE binary.mode]
                  /\ Logged(p, "fs", "copy", "opened")
                  /\ Continue(p, "copying")
    /\ UNCHANGED <<fixed, sessions, cliDir, temp, arg, version,
                   archive, extracted, verOut, events>>

\* lines 304-306, second half: the bytes are written, then the source's
\* permissions are set on the destination; the file is whole once no other
\* copy is still writing it
CopyEnd(p) ==
    /\ pc[p] = "copying"
    /\ \/ /\ binary' = [state |-> IF \E q \in Procs \ {p} : pc[q] = "copying"
                                  THEN "partial" ELSE "complete",
                        payload |-> copySrc[p].payload,
                        mode |-> copySrc[p].mode]
          /\ Logged(p, "fs", "copy", "ok")
          /\ Continue(p, "cleanup")
       \/ /\ UNCHANGED binary
          /\ Logged(p, "fs", "copy", "write_failed")
          /\ Return(p, Err("Failed to copy binary", "write"))
    /\ UNCHANGED <<fixed, sessions, cliDir, temp, arg, version,
                   archive, extracted, copySrc, verOut, events>>

\* Cleanup as it would be with the removal's error propagated by `?`
CleanupPropagates(p) ==
    /\ pc[p] = "cleanup"
    /\ \/ /\ temp' = NoTemp
          /\ Logged(p, "fs", "rmdir_temp", "ok")
          /\ Continue(p, "emit_verifying")
       \/ /\ UNCHANGED temp
          /\ Logged(p, "fs", "rmdir_temp", "failed")
          /\ Return(p, Err("Failed to remove temp directory", ""))
    /\ UNCHANGED <<fixed, sessions, cliDir, binary, arg, version,
                   archive, extracted, copySrc, verOut, events>>

\* lines 308-309: let _ = remove_dir_all(temp_dir)
Cleanup(p) ==
    /\ pc[p] = "cleanup"
    /\ \/ /\ temp' = NoTemp
          /\ Logged(p, "fs", "rmdir_temp", "ok")
       \/ /\ UNCHANGED temp
          /\ Logged(p, "fs", "rmdir_temp", "failed")
    /\ Continue(p, "emit_verifying")
    /\ UNCHANGED <<fixed, sessions, cliDir, binary, arg, version,
                   archive, extracted, copySrc, verOut, events>>

\* EmitVerifying as it would be if it announced completion ahead of the
\* verification
EmitVerifyingAsComplete(p) ==
    /\ pc[p] = "emit_verifying"
    /\ EmitProgress(p, "complete", 100)
    /\ Continue(p, "permissions")
    /\ UNCHANGED <<fixed, sessions, cliDir, binary, temp, arg,
                   version, archive, extracted, copySrc, verOut>>

\* line 312
EmitVerifying(p) ==
    /\ pc[p] = "emit_verifying"
    /\ EmitProgress(p, "verifying", 80)
    /\ Continue(p, "permissions")
    /\ UNCHANGED <<fixed, sessions, cliDir, binary, temp, arg,
                   version, archive, extracted, copySrc, verOut>>

\* Permissions as it would be with the result of set_permissions dropped
PermissionsBestEffort(p) ==
    /\ pc[p] = "permissions"
    /\ IF IsUnix(target.os)
       THEN \/ /\ UNCHANGED binary
               /\ Logged(p, "fs", "metadata", "failed")
               /\ Return(p, Err("Failed to get binary metadata", ""))
            \/ /\ UNCHANGED binary
               /\ Logged(p, "fs", "chmod", "failed")
               /\ Continue(p, "verify")
            \/ /\ binary' = [binary EXCEPT !.mode = Mode755]
               /\ Logged(p, "fs", "chmod", "ok")
               /\ Continue(p, "verify")
       ELSE /\ UNCHANGED <<binary, log>>
            /\ Continue(p, "verify")
    /\ UNCHANGED <<fixed, sessions, cliDir, temp, arg, version,
                   archive, extracted, copySrc, verOut, events>>

\* lines 314-324: cfg(unix) only
Permissions(p) ==
    /\ pc[p] = "permissions"
    /\ IF IsUnix(target.os)
       THEN \/ /\ UNCHANGED binary
               /\ Logged(p, "fs", "metadata", "failed")
               /\ Return(p, Err("Failed to get binary metadata", ""))
            \/ /\ UNCHANGED binary
               /\ Logged(p, "fs", "chmod", "failed")
               /\ Return(p, Err("Failed to set binary permissions", ""))
            \/ /\ binary' = [binary EXCEPT !.mode = Mode755]
               /\ Logged(p, "fs", "chmod", "ok")
               /\ Continue(p, "verify")
       ELSE /\ UNCHANGED <<binary, log>>
            /\ Continue(p, "verify")
    /\ UNCHANGED <<fixed, sessions, cliDir, temp, arg, version,
                   archive, extracted, copySrc, verOut, events>>

NotRun == [run |-> FALSE, success |-> FALSE, stderr |-> ""]
Output(ok, err) == [run |-> TRUE, success |-> ok, stderr |-> err]

\* What `binary --version` can do: a file that is not whole, or not executable
\* on a unix target, does not run to a successful exit
VersionOutputs ==
    {NotRun, Output(FALSE, ""), Output(FALSE, "boom")}
    \cup IF binary.state = "complete" /\ (IsUnix(target.os) => binary.mode = Mode755)
         THEN {Output(TRUE, "")} ELSE {}

\* Verify as it would be if a failed verification removed the new binary
VerifyRollback(p) ==
    /\ pc[p] = "verify"
    /\ \E o \in VersionOutputs :
         /\ verOut' = [verOut EXCEPT ![p] = o]
         /\ IF ~o.run
            THEN /\ Logged(p, "exec", "version", "spawn_failed")
                 /\ Return(p, Err("Failed to verify Codex CLI", ""))
                 /\ UNCHANGED binary
            ELSE IF ~o.success
            THEN /\ Logged(p, "exec", "version", "exit_failure")
                 /\ Return(p, Err("Codex CLI binary verification failed",
                                  IF o.stderr # "" THEN o.stderr ELSE "Unknown error"))
                 /\ binary' = Absent
            ELSE /\ Logged(p, "exec", "version", "ok")
                 /\ Continue(p, "quarantine")
                 /\ UNCHANGED binary
    /\ UNCHANGED <<fixed, sessions, cliDir, temp, arg,
                   version, archive, extracted, copySrc, events>>

\* lines 326-355
Verify(p) ==
    /\ pc[p] = "verify"
    /\ \E o \in VersionOutputs :
         /\ verOut' = [verOut EXCEPT ![p] = o]
         /\ IF ~o.run
            THEN /\ Logged(p, "exec", "version", "spawn_failed")
                 /\ Return(p, Err("Failed to verify Codex CLI", ""))
            ELSE IF ~o.success
            THEN /\ Logged(p, "exec", "version", "exit_failure")
                 /\ Return(p, Err("Codex CLI binary verification failed",
                                  IF o.stderr # "" THEN o.stderr ELSE "Unknown error"))
            ELSE /\ Logged(p, "exec", "version", "ok")
                 /\ Continue(p, "quarantine")
    /\ UNCHANGED <<fixed, sessions, cliDir, binary, temp, arg,
                   version, archive, extracted, copySrc, events>>

\* lines 357-365: cfg(target_os = "macos") only, the outcome is dropped
Quarantine(p) ==
    /\ pc[p] = "quarantine"
    /\ IF target.os = "macos"
       THEN \E ok \in BOOLEAN :
               Logged(p, "exec", "xattr", IF ok THEN "ok" ELSE "failed")
       ELSE UNCHANGED log
    /\ Continue(p, "emit_complete")
    /\ UNCHANGED <<fixed, sessions, cliDir, binary, temp, arg,
                   version, archive, extracted, copySrc, verOut, events>>

\* lines 367-371
EmitComplete(p) ==
    /\ pc[p] = "emit_complete"
    /\ EmitProgress(p, "complete", 100)
    /\ Return(p, Ok)
    /\ UNCHANGED <<fixed, sessions, cliDir, binary, temp, arg,
                   version, archive, extracted, copySrc, verOut>>

-----------------------------------------------------------------------------
(* The query commands and the pure helpers, applied to one input *)

installVars == <<sessions, cliDir, binary, temp, pc, arg, version, archive,
                 extracted, copySrc, verOut, result, events, log>>

\* The call returns r; nothing else changes
Answer(r) ==
    /\ reply.kind = "none"
    /\ reply' = r
    /\ UNCHANGED <<target, callers, query, installVars>>

\* lines 160-164 and 401-405: tag_name.strip_prefix('v').unwrap_or(tag_name)
NormalizeTag ==
    /\ query.op = "normalize_tag"
    /\ Answer([kind |-> "text", text |-> StripPrefixV(query.input)])

\* lines 13-32, as called at lines 109-110 on the trimmed stdout
ExtractVersion ==
    /\ query.op = "extract_version_number"
    /\ Answer([kind |-> "text", text |-> ExtractVersionNumber(query.input)])

\* A GitHubRelease of the catalog (lines 57-68): the i-th one, told from the
\* others by its tag and its date; the dates are not in order
Release(i, hasAssets, pre) ==
    [tag_name     |-> IF i % 2 = 1 THEN <<"v", ToString(i)>> ELSE <<ToString(i)>>,
     published_at |-> (i * 5) % 11,
     prerelease   |-> pre,
     assets       |-> IF hasAssets THEN 1 ELSE 0]

\* The bodies the releases endpoint may answer with
Catalogs ==
    UNION { { [i \in 1..n |-> Release(i, i \in A, (i % 2 = 0) = even)] :
                A \in SUBSET (1..n), even \in BOOLEAN } :
            n \in 0..MaxReleases }

\* line 158
TakeLimit == 5

\* Iterator::take
Take(s, n) == IF Len(s) <= n THEN s ELSE SubSeq(s, 1, n)

\* line 157
HasAssets(r) == r.assets # 0

\* lines 159-171
ReleaseInfo(r) ==
    [version      |-> StripPrefixV(r.tag_name),
     tag_name     |-> r.tag_name,
     published_at |-> r.published_at,
     prerelease   |-> r.prerelease]

\* The conversion as it would be if take(5) came before the filter
AvailableVersionsTakeFirst(releases) ==
    LET kept == SelectSeq(Take(releases, TakeLimit), HasAssets)
    IN  [k \in 1..Len(kept) |-> ReleaseInfo(kept[k])]

\* lines 155-174: filter, take(5), map, collect
AvailableVersions(releases) ==
    LET kept == Take(SelectSeq(releases, HasAssets), TakeLimit)
    IN  [k \in 1..Len(kept) |-> ReleaseInfo(kept[k])]

ListErrors ==
    {"Failed to create HTTP client", "Failed to fetch releases",
     "GitHub API returned status", "Failed to parse GitHub API response"}

\* lines 131-177: get_available_codex_versions, one GET of the catalog
GetAvailableCodexVersions ==
    /\ query.op = "get_available_codex_versions"
    /\ \/ \E e \in ListErrors : Answer([kind |-> "err", error |-> e])
       \/ Answer([kind |-> "list", list |-> AvailableVersions(query.input)])

\* The archives and the leftovers of the scratch directory the extraction
\* helpers are applied to: the named binary as a file or as a directory, a
\* document, another executable, a directory
ArchiveEntries(os, platform) ==
    { File(ZipBinaryName(os, platform), <<"1">>, Mode755),
      Dir(ZipBinaryName(os, platform)),
      File(Readme, <<"1">>, Mode644),
      File(Tool, <<"1">>, Mode755),
      Dir(FileName("bin", "")) }

OneEntryPerName(fs) == \A f, g \in fs : f.name = g.name => f = g

ExtractInputs(os, platform) ==
    { [arc      |-> [payload |-> <<"1">>, corrupt |-> c, files |-> fs],
       dirFiles |-> old] :
        c \in BOOLEAN,
        fs \in {fs \in SUBSET ArchiveEntries(os, platform) : OneEntryPerName(fs)},
        old \in { {}, {File(Tool, <<"0">>, Mode644)},
                  {File(ZipBinaryName(os, platform), <<"0">>, Mode644)} } }

ExtractReply(r) ==
    [kind |-> "extract", ok |-> r.ok, error |-> r.error, path |-> r.path,
     files |-> r.files]

\* lines 411-481 applied to one archive
ApplyExtractZip ==
    /\ query.op = "extract_zip"
    /\ LET plat == GetCodexPlatform(target.os, target.arch)
       IN  \E r \in ExtractZip(query.input.arc, query.input.dirFiles,
                               target.os, plat.platform) :
              Answer(ExtractReply(r))

\* lines 484-511 applied to one archive
ApplyExtractTarGz ==
    /\ query.op = "extract_tar_gz"
    /\ LET plat == GetCodexPlatform(target.os, target.arch)
       IN  \E r \in ExtractTarGz(query.input.arc, query.input.dirFiles,
                                 plat.platform) :
              Answer(ExtractReply(r))

\* What is found at the final path when a status command runs: nothing, the
\* binary of an earlier install, a file a copy left unfinished, a whole file
\* whose permission bits were never set
Leftovers ==
    { Absent, OldBinary,
      [state |-> "partial", payload |-> <<"1">>, mode |-> Mode644],
      [state |-> "complete", payload |-> <<"1">>, mode |-> Mode644] }

\* std::process::Output of a run of the binary, and the failure to start it
Ran(ok, out, err) == [run |-> TRUE, success |-> ok, stdout |-> out, stderr |-> err]
SpawnFailed == [run |-> FALSE, success |-> FALSE, stdout |-> << >>, stderr |-> << >>]

Stderrs == { << >>, <<"a">>, <<" ", "a", " ">> }

\* What running the file at the final path can give
Runs(outs) ==
    {SpawnFailed}
    \cup {Ran(FALSE, << >>, e) : e \in Stderrs}
    \cup IF binary.state = "complete" /\ (IsUnix(target.os) => binary.mode = Mode755)
         THEN {Ran(TRUE, o, << >>) : o \in outs} ELSE {}

\* config.rs lines 7-14, 33-35: codex-cli/codex, codex-cli/codex.exe on Windows
BinaryPath(os) ==
    IF os = "windows" THEN <<"codex-cli", "codex.exe">> ELSE <<"codex-cli", "codex">>

ErrReply(e) == [kind |-> "err", error |-> e]

\* CodexCliStatus, lines 34-43
Status(installed, ver, path) ==
    [kind |-> "status", installed |-> installed, version |-> ver, path |-> path]

\* check_codex_cli_installed as it would be without the test of the exit status
CheckCodexCliInstalledAnyExit ==
    /\ query.op = "check_codex_cli_installed"
    /\ reply.kind = "none"
    /\ LET in == query.input
       IN  reply' =
             IF ~in.path_ok THEN ErrReply("Failed to get app data directory")
             ELSE IF binary.state = "absent" THEN Status(FALSE, None, None)
             ELSE Status(TRUE,
                         IF in.out.run
                         THEN Some(ExtractVersionNumber(Trim(in.out.stdout)))
                         ELSE None,
                         Some(BinaryPath(target.os)))
    /\ UNCHANGED <<target, callers, query, installVars>>

\* lines 87-127: check_codex_cli_installed
CheckCodexCliInstalled ==
    /\ query.op = "check_codex_cli_installed"
    /\ reply.kind = "none"
    /\ LET in == query.input
       IN  reply' =
             IF ~in.path_ok THEN ErrReply("Failed to get app data directory")
             ELSE IF binary.state = "absent" THEN Status(FALSE, None, None)
             ELSE Status(TRUE,
                         IF in.out.run /\ in.out.success
                         THEN Some(ExtractVersionNumber(Trim(in.out.stdout)))
                         ELSE None,
                         Some(BinaryPath(target.os)))
    /\ UNCHANGED <<target, callers, query, installVars>>

\* CodexAuthStatus, lines 515-520; the error is one of the two fixed messages
\* or the trimmed stderr
NoError == [some |-> FALSE, what |-> "none", text |-> << >>]
Message(what) == [some |-> TRUE, what |-> what, text |-> << >>]
Captured(text) == [some |-> TRUE, what |-> "stderr", text |-> text]

AuthStatus(authenticated, error) ==
    [kind |-> "auth", authenticated |-> authenticated, error |-> error]

\* lines 524-573: check_codex_cli_auth
CheckCodexCliAuth ==
    /\ query.op = "check_codex_cli_auth"
    /\ reply.kind = "none"
    /\ LET in == query.input
       IN  reply' =
             IF ~in.path_ok THEN ErrReply("Failed to get app data directory")
             ELSE IF binary.state = "absent"
             THEN AuthStatus(FALSE, Message("Codex CLI not installed"))
             ELSE IF ~in.out.run THEN ErrReply("Failed to execute Codex CLI")
             ELSE IF in.out.success
             THEN AuthStatus(in.has_api_key,
                             IF in.has_api_key THEN NoError
                             ELSE Message("API key not set"))
             ELSE AuthStatus(FALSE, Captured(Trim(in.out.stderr)))
    /\ UNCHANGED <<target, callers, query, installVars>>

-----------------------------------------------------------------------------
(* Specification *)

InitFiles ==
    /\ binary \in {Absent, OldBinary}
    /\ cliDir \in BOOLEAN
    /\ binary # Absent => cliDir
    /\ temp = NoTemp

InitCallers ==
    /\ sessions = 0
    /\ pc = [p \in Procs |-> "idle"]
    /\ arg = [p \in Procs |-> None]
    /\ version = [p \in Procs |-> NoVersion]
    /\ archive = [p \in Procs |-> NoArchive]
    /\ extracted = [p \in Procs |-> NoFile]
    /\ copySrc = [p \in Procs |-> NoSource]
    /\ verOut = [p \in Procs |-> NotRun]
    /\ result = [p \in Procs |-> Pending]
    /\ events = [p \in Procs |-> << >>]
    /\ log = [p \in Procs |-> << >>]

NoQuery == [op |-> "none", input |-> << >>]
NoReply == [kind |-> "none"]

\* One caller, every build target
Init ==
    /\ target \in Targets
    /\ callers = {"a"}
    /\ query = NoQuery
    /\ reply = NoReply
    /\ InitFiles
    /\ InitCallers

Install(p) ==
    \/ Call(p)
    \/ Guard(p)
    \/ EnsureDir(p)
    \/ EmitStarting(p)
    \/ SelectVersion(p)
    \/ ResolvePlatform(p)
    \/ EmitDownloading(p)
    \/ Download(p)
    \/ EmitExtracting(p)
    \/ CreateTemp(p)
    \/ Extract(p)
    \/ EmitInstalling(p)
    \/ CopyBegin(p)
    \/ CopyEnd(p)
    \/ Cleanup(p)
    \/ EmitVerifying(p)
    \/ Permissions(p)
    \/ Verify(p)
    \/ Quarantine(p)
    \/ EmitComplete(p)

Next ==
    \/ SessionStart
    \/ SessionStop
    \/ \E p \in Procs : Install(p)

Spec == Init /\ [][Next]_vars

\* A run without faults of the environment: every event is delivered, every
\* request, directory and file operation succeeds, every archive holds just
\* the named binary, and the installed binary runs
CalmOuts == {"ok", "opened", "created", "exists", "delivered", "no_source"}

Calm ==
    \A p \in Procs :
        /\ \A i \in 1..Len(log[p]) : log[p][i].out \in CalmOuts
        /\ \A f \in archive[p].files :
              ~f.dir /\ f.name.stem # Readme.stem /\ f.name.stem # Tool.stem
        /\ archive[p] # NoArchive => archive[p].files # {}

\* Two callers of install_codex_cli on one build target, no session running
InitConc ==
    /\ target = [os |-> "linux", arch |-> "x86_64"]
    /\ callers = Procs
    /\ query = NoQuery
    /\ reply = NoReply
    /\ InitFiles
    /\ InitCallers

NextConc == \E p \in Procs : Install(p) /\ Calm'

SpecConc == InitConc /\ [][NextConc]_vars

\* One call of a query command or helper, on any input within the bounds
NoFiles ==
    /\ binary = Absent
    /\ cliDir = FALSE
    /\ temp = NoTemp

InitQuery ==
    /\ callers = {}
    /\ reply = NoReply
    /\ InitCallers
    /\ \/ /\ query \in {[op |-> "normalize_tag", input |-> t] : t \in Texts}
          /\ target = [os |-> "linux", arch |-> "x86_64"]
          /\ NoFiles
       \/ /\ query \in {[op |-> "extract_version_number", input |-> t] :
                           t \in Texts}
          /\ target = [os |-> "linux", arch |-> "x86_64"]
          /\ NoFiles
       \/ /\ query \in {[op |-> "get_available_codex_versions", input |-> c] :
                           c \in Catalogs}
          /\ target = [os |-> "linux", arch |-> "x86_64"]
          /\ NoFiles
       \/ /\ target \in {[os |-> "linux", arch |-> "x86_64"],
                        [os |-> "windows", arch |-> "x86_64"]}
          /\ \E op \in {"extract_zip", "extract_tar_gz"} :
                query \in {[op |-> op, input |-> i] :
                    i \in ExtractInputs(target.os,
                          GetCodexPlatform(target.os, target.arch).platform)}
          /\ NoFiles
       \/ /\ target \in {[os |-> "linux", arch |-> "x86_64"],
                        [os |-> "windows", arch |-> "x86_64"]}
          /\ binary \in Leftovers
          /\ cliDir = (binary # Absent)
          /\ temp = NoTemp
          /\ \/ query \in
                  {[op |-> "check_codex_cli_installed",
                    input |-> [path_ok |-> ok, out |-> o]] :
                      ok \in BOOLEAN, o \in Runs(Texts)}
             \/ query \in
                  {[op |-> "check_codex_cli_auth",
                    input |-> [path_ok |-> ok, out |-> o, has_api_key |-> k]] :
                      ok \in BOOLEAN, o \in Runs({<< >>}), k \in BOOLEAN}

NextQuery ==
    \/ NormalizeTag
    \/ ExtractVersion
    \/ GetAvailableCodexVersions
    \/ ApplyExtractZip
    \/ ApplyExtractTarGz
    \/ CheckCodexCliInstalled
    \/ CheckCodexCliAuth

SpecQuery == InitQuery /\ [][NextQuery]_vars

-----------------------------------------------------------------------------
(* Properties *)

Last(q) == q[Len(q)]

\* The effects of `log[p]` that satisfy Test
Count(q, Test(_)) == Cardinality({i \in 1..Len(q) : Test(q[i])})

IsBusy(r) == r.kind = "err" /\ r.count > 0

\* The step just taken by p appended an effect to its log
Did(p) == Len(log'[p]) = Len(log[p]) + 1

\* C1: an install called while sessions are running returns the busy error
\* from the guard itself, having made no network request, touched no
\* directory or file and emitted no progress event.
C1_BusyBeforeAnyEffect ==
    [][\A p \in Procs :
          (pc[p] = "guard" /\ sessions > 0 /\ pc'[p] # pc[p]) =>
             /\ pc'[p] = "done"
             /\ result'[p] = Busy(sessions)
             /\ log'[p] = << >>
             /\ events'[p] = << >>
             /\ cliDir' = cliDir
             /\ temp' = temp
             /\ binary' = binary]_vars

C1_Witness ==
    \E p \in Procs :
        pc[p] = "done" /\ IsBusy(result[p]) /\ log[p] = << >> /\ ~cliDir

\* p's step wrote the file at the final install path (the place step)
Placed(p) ==
    /\ Did(p)
    /\ Last(log'[p]).what = "copy"
    /\ Last(log'[p]).out \in {"opened", "ok"}

\* C2: the place step never writes the final path while a session is active.
C2_NoPlaceWhileSessions ==
    [][\A p \in Procs : Placed(p) => sessions = 0]_vars

\* C3: the file at the final install path is the whole prior binary or the
\* whole new one, never a partly written file.
C3_NoPartialAtFinalPath == binary.state # "partial"

\* The (stage, percent) pairs of a sequence of progress events
Stages(ev) == [i \in 1..Len(ev) |-> <<ev[i].stage, ev[i].percent>>]

SixStages ==
    << <<"starting", 0>>, <<"downloading", 20>>, <<"extracting", 40>>,
       <<"installing", 60>>, <<"verifying", 80>>, <<"complete", 100>> >>

\* C4: an install that returned success emitted exactly the six stages
\* starting, downloading, extracting, installing, verifying, complete, with
\* percents 0, 20, 40, 60, 80, 100, each once and in this order.
C4_SuccessEmitsSixStages ==
    \A p \in Procs : result[p].kind = "ok" => Stages(events[p]) = SixStages

C4_Witness ==
    \E p \in Procs : result[p].kind = "ok" /\ Len(events[p]) = 6

\* The percents of one attempt never decrease; `complete` and 100 come
\* together, and are there exactly when the attempt has returned success
ProgressWellFormed(p) ==
    /\ \A i, j \in 1..Len(events[p]) :
          i <= j => events[p][i].percent <= events[p][j].percent
    /\ \A i \in 1..Len(events[p]) :
          events[p][i].percent = 100 <=> events[p][i].stage = "complete"
    /\ (\E i \in 1..Len(events[p]) : events[p][i].percent = 100)
          <=> result[p].kind = "ok"

\* C5: within one attempt the percents are non-decreasing, the event with
\* percent 100 (complete) is emitted if and only if the attempt returns
\* success, and nothing is emitted once the attempt has an error.
C5_PercentMonotoneCompleteIffSuccess ==
    /\ [](\A p \in Procs : ProgressWellFormed(p))
    /\ [][\A p \in Procs :
             result[p].kind = "err" => events'[p] = events[p]]_vars

\* an attempt that failed late, after five events
C5_Witness ==
    \E p \in Procs :
        /\ result[p].kind = "err"
        /\ Len(events[p]) = 5
        /\ events[p][5].percent = 80

VerificationFailed(p) == verOut[p].run /\ ~verOut[p].success

IsXattr(e) == e.what = "xattr"

\* What a failed verification leaves behind, given the text the error carries
AfterFailedVerification(p, text) ==
    /\ pc[p] = "done"
    /\ result[p] = Err("Codex CLI binary verification failed", text)
    /\ Last(log[p]) = Effect("exec", "version", "exit_failure")
    /\ Count(log[p], IsXattr) = 0
    /\ \A i \in 1..Len(events[p]) : events[p][i].stage # "complete"
    /\ callers = {p} =>
          /\ binary.state = "complete"
          /\ binary.payload = copySrc[p].payload
          /\ binary.payload = version[p]

\* C6 as stated: the error of a failed verification carries the captured
\* stderr; the new binary stays, no quarantine removal, no `complete`.
C6_ErrorCarriesStderr ==
    \A p \in Procs :
        VerificationFailed(p) => AfterFailedVerification(p, verOut[p].stderr)

\* C6, amended: the error of a failed verification carries the captured
\* stderr when that is not empty and the text "Unknown error" when it is;
\* the new binary stays at the final path (the previous one is not put
\* back), quarantine removal is not attempted and `complete` is not emitted.
C6_VerificationFailureKeepsBinary ==
    \A p \in Procs :
        VerificationFailed(p) =>
            AfterFailedVerification(p,
                IF verOut[p].stderr # "" THEN verOut[p].stderr
                ELSE "Unknown error")

C6_Witness ==
    \E p \in Procs :
        /\ VerificationFailed(p)
        /\ verOut[p].stderr = ""
        /\ result[p].detail = "Unknown error"
        /\ binary.state = "complete"

RemovalFailed(e) == e.what = "rmdir_temp" /\ e.out = "failed"

\* C7: once an attempt has ended, with success or with any error, the
\* scratch directory is gone, unless its removal failed.
C7_ScratchGoneAfterAttempt ==
    \A p \in Procs :
        (pc[p] = "done" /\ callers = {p} /\ Count(log[p], RemovalFailed) = 0)
            => ~temp.exists

IsSideStep(e) == e.op = "emit" \/ e.what \in {"rmdir_temp", "xattr"}

\* The position the pipeline goes on from after a best-effort step
AfterSideStep(what) ==
    CASE what = "starting" -> "select_version"
      [] what = "downloading" -> "download"
      [] what = "extracting" -> "create_temp"
      [] what = "installing" -> "copy"
      [] what = "rmdir_temp" -> "emit_verifying"
      [] what = "verifying" -> "permissions"
      [] what = "xattr" -> "emit_complete"
      [] what = "complete" -> "done"

\* C8: a lost progress event, a failed removal of the scratch directory and
\* a failed quarantine removal leave the pipeline where their success leaves
\* it: at the next step, with no error; an error is never that of such a step.
C8_BestEffortStepsNeverDecide ==
    /\ [][\A p \in Procs :
             (Did(p) /\ IsSideStep(Last(log'[p]))) =>
                 /\ pc'[p] = AfterSideStep(Last(log'[p]).what)
                 /\ result'[p] = IF Last(log'[p]).what = "complete"
                                 THEN Ok ELSE Pending]_vars
    /\ [](\A p \in Procs :
             (result[p].kind = "err" /\ log[p] # << >>)
                 => ~IsSideStep(Last(log[p])))

\* a successful install whose every best-effort step failed
C8_Witness ==
    \E p \in Procs :
        /\ result[p].kind = "ok"
        /\ \A i \in 1..Len(events[p]) : ~events[p][i].delivered
        /\ Count(log[p], RemovalFailed) = 1
        /\ \E i \in 1..Len(log[p]) : log[p][i] = Effect("exec", "xattr", "failed")

StageIndex(stage) ==
    CASE stage = "starting" -> 0
      [] stage = "downloading" -> 1
      [] stage = "extracting" -> 2
      [] stage = "installing" -> 3
      [] stage = "verifying" -> 4
      [] stage = "complete" -> 5

\* A network request, a filesystem write or an invocation of the binary
\* (create_dir_all of a directory that is there writes nothing)
IsWork(e) == e.op \in {"net", "fs", "exec"} /\ e.out # "exists"

\* The stage whose work an effect is
WorkStage(e) ==
    CASE e.what \in {"mkdir_cli", "latest"} -> 0
      [] e.what = "download" -> 1
      [] e.what \in {"mkdir_temp", "extract"} -> 2
      [] e.what \in {"copy", "rmdir_temp"} -> 3
      [] e.what \in {"metadata", "chmod", "version", "xattr"} -> 4

Emitted(q, i, k) ==
    \E j \in 1..(i - 1) : q[j].op = "emit" /\ StageIndex(q[j].what) = k

Before(q, i, e) == \E j \in 1..(i - 1) : q[j] = e

\* What has succeeded when the event of stage k is emitted
PrecedingWorkDone(p, i, k) ==
    CASE k = 0 -> TRUE
      [] k = 1 -> /\ arg[p].some \/ Before(log[p], i, Effect("net", "latest", "ok"))
                  /\ Before(log[p], i, Effect("local", "platform", "ok"))
      [] k = 2 -> Before(log[p], i, Effect("net", "download", "ok"))
      [] k = 3 -> Before(log[p], i, Effect("fs", "extract", "ok"))
      [] k = 4 -> Before(log[p], i, Effect("fs", "copy", "ok"))
      [] k = 5 -> Before(log[p], i, Effect("exec", "version", "ok"))

\* Every piece of work outside Exempt follows the event of its stage, and
\* every event follows the success of the stage before it and precedes all
\* work of its own and of later stages
StagesFrameWork(p, Exempt) ==
    \A i \in 1..Len(log[p]) :
        LET e == log[p][i] IN
        /\ (IsWork(e) /\ e.what \notin Exempt) => Emitted(log[p], i, WorkStage(e))
        /\ e.op = "emit" =>
              /\ PrecedingWorkDone(p, i, StageIndex(e.what))
              /\ \A j \in 1..(i - 1) :
                    (IsWork(log[p][j]) /\ log[p][j].what \notin Exempt)
                        => WorkStage(log[p][j]) < StageIndex(e.what)

\* C9 as stated: each stage's event precedes the work of its stage and
\* follows the success of the stage before; no network request and no
\* filesystem write happens before `starting` is emitted.
C9_NoWorkBeforeStarting ==
    \A p \in Procs : StagesFrameWork(p, {})

\* C9, amended: as stated, except that the install directory is created
\* (ensure_codex_cli_dir) before `starting` is emitted; no other filesystem
\* write and no network request happens before `starting`.
C9_EventsFrameStageWork ==
    \A p \in Procs : StagesFrameWork(p, {"mkdir_cli"})

\* the install directory was created, and every stage has run
C9_Witness ==
    \E p \in Procs :
        /\ result[p].kind = "ok"
        /\ log[p][1] = Effect("fs", "mkdir_cli", "created")
        /\ log[p][2].op = "emit"

IsLatest(e) == e.op = "net" /\ e.what = "latest"
IsDownload(e) == e.op = "net" /\ e.what = "download"

\* The effect is a step that failed, other than a best-effort one
Failure(e) == ~IsSideStep(e) /\ e.out \notin {"ok", "opened", "created", "exists"}

\* The error a failed step returns
ErrorsOf(e) ==
    CASE e.what = "mkdir_cli" -> {"Failed to create Codex CLI directory"}
      [] e.what = "app_data_dir" -> {"Failed to get app data directory"}
      [] e.what = "client" -> {"Failed to create HTTP client"}
      [] e.what = "latest" -> IF e.out = "body"
                              THEN {"Failed to parse release info"}
                              ELSE {"Failed to fetch latest release"}
      [] e.what = "platform" -> {"Unsupported platform"}
      [] e.what = "download" -> IF e.out = "body"
                                THEN {"Failed to read archive content"}
                                ELSE {"Failed to download Codex CLI"}
      [] e.what = "mkdir_temp" -> {"Failed to create temp directory"}
      [] e.what = "extract" -> {"Failed to open zip archive", "Failed to extract file",
                                "Failed to read temp directory",
                                "Failed to extract tar.gz archive",
                                "Binary not found in archive"}
      [] e.what = "copy" -> {"Failed to copy binary"}
      [] e.what = "metadata" -> {"Failed to get binary metadata"}
      [] e.what = "chmod" -> {"Failed to set binary permissions"}
      [] e.what = "version" -> IF e.out = "spawn_failed"
                               THEN {"Failed to verify Codex CLI"}
                               ELSE {"Codex CLI binary verification failed"}

NothingRetried(p) ==
    /\ arg[p].some => Count(log[p], IsLatest) = 0
    /\ Count(log[p], IsLatest) <= 1
    /\ (~arg[p].some /\ version[p] # NoVersion) => Count(log[p], IsLatest) = 1
    /\ \A i \in 1..(Len(log[p]) - 1) :
          (~arg[p].some /\ log[p][i].op = "emit" /\ log[p][i].what = "starting")
              => IsLatest(log[p][i + 1]) \/ log[p][i + 1].what = "client"
    /\ Count(log[p], IsDownload) <= 1
    /\ \A i \in 1..(Len(log[p]) - 1) : ~Failure(log[p][i])
    /\ (log[p] # << >> /\ Failure(Last(log[p]))) =>
          /\ pc[p] = "done"
          /\ result[p].kind = "err"
          /\ result[p].error \in ErrorsOf(Last(log[p]))
    /\ result[p].kind = "err" =>
          /\ pc[p] = "done"
          /\ IsBusy(result[p]) \/ (log[p] # << >> /\ Failure(Last(log[p])))

\* C10: nothing is retried within one attempt: no request to the release
\* catalog when the caller gave a version, exactly one to the latest endpoint
\* otherwise, at most one archive download, and the first step that fails
\* ends the attempt with its error, no later step running.
C10_NoRetryFirstFailureEnds ==
    /\ [](\A p \in Procs : NothingRetried(p))
    /\ [][\A p \in Procs :
             result[p].kind = "err" =>
                 /\ log'[p] = log[p]
                 /\ result'[p] = result[p]]_vars

\* the latest endpoint was asked once and the download then failed
C10_Witness ==
    \E p \in Procs :
        /\ ~arg[p].some
        /\ Count(log[p], IsLatest) = 1
        /\ result[p].kind = "err"
        /\ Last(log[p]) = Effect("net", "download", "status")

\* The caller has emitted `starting` and has not returned
InPipeline(p) == events[p] # << >> /\ pc[p] # "done"

\* C11: installs do not exclude one another: with no session running, a
\* caller at the guard is never blocked and always passes it, whatever the
\* other caller is doing, so two installs can be inside the pipeline at once.
C11_NoMutualExclusion ==
    /\ [](\A p \in callers : pc[p] = "guard" => ENABLED Guard(p))
    /\ [][\A p \in Procs :
             (pc[p] = "guard" /\ sessions = 0 /\ pc'[p] # pc[p]) =>
                 /\ pc'[p] = "ensure_dir"
                 /\ result'[p] = Pending]_vars

C11_Witness ==
    \E p, q \in Procs :
        p # q /\ sessions = 0 /\ InPipeline(p) /\ InPipeline(q)

\* The call op has returned a string
Returned(op) == query.op = op /\ reply.kind = "text"

StartsWithV(t) == t # << >> /\ t[1] = "v"

\* C12 as stated: normalizing a tag twice gives what normalizing it once
\* gives, for every tag, and a tag without a leading v is returned unchanged.
C12_NormalizeTagIdempotent ==
    Returned("normalize_tag") =>
        /\ StripPrefixV(reply.text) = reply.text
        /\ ~StartsWithV(query.input) => reply.text = query.input

\* C12 (amended): normalizing removes exactly one leading v: a tag without a
\* leading v is returned unchanged, a tag with one is returned without its
\* first character, and normalizing twice equals normalizing once exactly
\* for the tags that do not begin with two v's.
C12_NormalizeTagStripsOneV ==
    Returned("normalize_tag") =>
        LET t == query.input
            r == reply.text
        IN  /\ ~StartsWithV(t) => r = t
            /\ StartsWithV(t) => t = <<"v">> \o r
            /\ (StripPrefixV(r) = r) <=> ~(Len(t) >= 2 /\ t[1] = "v" /\ t[2] = "v")

C12_Witness ==
    /\ Returned("normalize_tag")
    /\ query.input = <<"v", "v", "1">>
    /\ reply.text = <<"v", "1">>

\* The words of s, declaratively: <<i, j>> bounds a word when s[i..j] holds
\* no whitespace and cannot be extended on either side
IsWord(s, i, j) ==
    /\ i <= j
    /\ \A k \in i..j : ~IsWhitespace(s[k])
    /\ i = 1 \/ IsWhitespace(s[i - 1])
    /\ j = Len(s) \/ IsWhitespace(s[j + 1])

WordsOf(s) == {w \in (1..Len(s)) \X (1..Len(s)) : IsWord(s, w[1], w[2])}

\* Number of leading v's of w
LeadingVs(w) ==
    CHOOSE n \in 0..Len(w) :
        /\ \A k \in 1..n : w[k] = "v"
        /\ n = Len(w) \/ w[n + 1] # "v"

Drop(w, n) == SubSeq(w, n + 1, Len(w))

Min2(a, b) == IF a <= b THEN a ELSE b

\* The word of s at w with its leading v's removed, at most `most` of them
Stripped(s, w, most) ==
    LET word == SubSeq(s, w[1], w[2])
    IN  Drop(word, Min2(most, LeadingVs(word)))

Qualifies(t) == t # << >> /\ IsAsciiDigit(t[1]) /\ \E k \in 1..Len(t) : t[k] = "."

\* What extract_version_number is said to return for s when each word
\* loses at most `most` leading v's
FirstQualifying(s, most) ==
    LET good == {w \in WordsOf(s) : Qualifies(Stripped(s, w, most))}
    IN  IF good = {} THEN s
        ELSE Stripped(s, CHOOSE w \in good : \A u \in good : w[1] <= u[1], most)

Bearing(cat) == {i \in 1..Len(cat) : cat[i].assets > 0}

Rank(cat, i) == Cardinality({j \in Bearing(cat) : j <= i})

Unpacked ==
    /\ query.op \in {"extract_zip", "extract_tar_gz"}
    /\ reply.kind = "extract"
    /\ reply.ok \/ reply.error = "Binary not found in archive"

\* C15: without a top-level file named codex-{triple} in the extracted
\* output the tar variant fails with binary-not-found, and the zip variant
\* returns a top-level regular file (on Windows one with the exe extension)
\* when there is one and fails with binary-not-found when there is none; with
\* the named file present both return exactly its path.
C15_NamedFileElseZipFallback ==
    Unpacked =>
        LET plat == GetCodexPlatform(target.os, target.arch).platform
            named == IF query.op = "extract_zip"
                     THEN ZipBinaryName(target.os, plat)
                     ELSE [stem |-> "codex-" \o plat, ext |-> ""]
            regular == {f \in reply.files : ~f.dir}
            others == {f \in regular :
                          target.os = "windows" => f.name.ext = "exe"}
            notFound == ~reply.ok /\ reply.error = "Binary not found in archive"
        IN  IF \E f \in regular : f.name = named
            THEN reply.ok /\ reply.path = named
            ELSE IF query.op = "extract_tar_gz" THEN notFound
            ELSE IF others = {} THEN notFound
            ELSE reply.ok /\ \E f \in others : reply.path = f.name

\* A file exists at the resolved binary path
Exists == binary.state # "absent"

\* C16: check_codex_cli_installed changes nothing; installed is true exactly
\* when a file exists at the binary path, the path is present exactly when
\* installed is, the version is present only when installed and the version
\* query exited successfully, and a binary that exists but cannot be run or
\* exits with failure gives installed = true without a version.
C16_StatusReflectsFileAndRun ==
    /\ [](query.op = "check_codex_cli_installed" /\ reply.kind = "status" =>
            LET out == query.input.out
            IN  /\ reply.installed <=> Exists
                /\ reply.path.some <=> reply.installed
                /\ reply.version.some => reply.installed /\ out.run /\ out.success
                /\ Exists /\ ~(out.run /\ out.success) =>
                       reply.installed /\ ~reply.version.some)
    /\ [][query.op = "check_codex_cli_installed" =>
            UNCHANGED <<binary, cliDir, temp, sessions>>]_vars

C16_Witness ==
    /\ query.op = "check_codex_cli_installed"
    /\ reply.kind = "status"
    /\ binary.state = "partial"
    /\ query.input.out.run /\ ~query.input.out.success
    /\ reply.installed /\ ~reply.version.some /\ reply.path.some

\* C17: whenever the binary path resolves, check_codex_cli_auth yields an
\* AuthStatus; authenticated holds exactly when the binary exists, the help
\* query succeeds and the credential variable is set; the error is absent
\* exactly when authenticated; a missing binary gives the not-installed
\* error, a working binary without credential the guidance message, and a
\* binary that cannot be run or exits with failure the captured stderr.
C17_AlwaysAnAuthStatus ==
    (query.op = "check_codex_cli_auth" /\ reply.kind # "none"
        /\ query.input.path_ok) =>
        LET out == query.input.out
            works == out.run /\ out.success
        IN  /\ reply.kind = "auth"
            /\ reply.authenticated <=> (Exists /\ works /\ query.input.has_api_key)
            /\ ~reply.error.some <=> reply.authenticated
            /\ ~Exists => reply.error.what = "Codex CLI not installed"
            /\ Exists /\ works /\ ~query.input.has_api_key =>
                   reply.error.what = "API key not set"
            /\ Exists /\ ~works =>
                   /\ ~reply.authenticated
                   /\ reply.error.what = "stderr"
                   /\ reply.error.text \in {out.stderr, Trim(out.stderr)}

\* The six supported pairs and their asset triples
Supported(t) == t.os \in {"macos", "linux", "windows"} /\ t.arch \in {"x86_64", "aarch64"}

Triple(t) ==
    t.arch \o (CASE t.os = "macos" -> "-apple-darwin"
                 [] t.os = "linux" -> "-unknown-linux-musl"
                 [] t.os = "windows" -> "-pc-windows-msvc")

\* The attempt of p has reached platform resolution
Resolved(p) == \E i \in 1..Len(log[p]) : log[p][i].what = "platform"

\* C18: for each of the six supported pairs platform resolution gives the
\* pair's asset triple, with the zip container exactly on Windows and gzip-tar
\* otherwise; for any other pair it gives the unsupported-platform error and
\* nothing else, and the install fails with it, having made no download
\* request and emitted no `downloading` event.
C18_PlatformTotalAndFailsEarly ==
    \A p \in callers :
        Resolved(p) =>
            LET r == GetCodexPlatform(target.os, target.arch)
            IN  IF Supported(target)
                THEN /\ r.ok
                     /\ r.platform = Triple(target)
                     /\ r.ext = "zip" <=> target.os = "windows"
                     /\ r.ext = "tar.gz" <=> target.os # "windows"
                     /\ result[p].error # "Unsupported platform"
                ELSE /\ ~r.ok /\ r.platform = "" /\ r.ext = ""
                     /\ pc[p] = "done"
                     /\ result[p].kind = "err"
                     /\ result[p].error = "Unsupported platform"
                     /\ \A i \in 1..Len(log[p]) : log[p][i].what # "download"
                     /\ \A i \in 1..Len(events[p]) :
                           events[p][i].stage # "downloading"

C18_Witness ==
    /\ target = [os |-> "windows", arch |-> "x86"]
    /\ result["a"].error = "Unsupported platform"
    /\ \E i \in 1..Len(log["a"]) : log["a"][i] = Effect("net", "latest", "ok")

\* The steps of install_codex_cli that come before the place step
PrePlace ==
    {"guard", "ensure_dir", "emit_starting", "select_version", "platform",
     "emit_downloading", "download", "emit_extracting", "create_temp",
     "extract", "emit_installing"}

\* The attempt of p ended with an error without having reached the copy
FailedBeforePlace(p) ==
    /\ pc[p] = "done"
    /\ result[p].kind = "err"
    /\ \A i \in 1..Len(log[p]) : log[p][i].what # "copy"

\* C19: no step of an install before the place step changes the file at the
\* final path, so after an attempt that failed before the place step a
\* binary installed earlier is still there, whole, and an absent one is
\* still absent.
C19_FailureBeforePlaceKeepsBinary ==
    /\ [][\A p \in Procs :
            (pc[p] \in PrePlace /\ pc'[p] # pc[p]) => binary' = binary]_vars
    /\ [](\A p \in callers :
            (callers = {p} /\ FailedBeforePlace(p)) =>
                binary \in {Absent, OldBinary})

C19_Witness ==
    /\ FailedBeforePlace("a")
    /\ log["a"] # << >>
    /\ Last(log["a"]) = Effect("fs", "extract", "failed")
    /\ binary = OldBinary

\* The attempt of p extracted its binary and then found no file to copy
LostExtractedFile(p) ==
    \E i, j \in 1..Len(log[p]) :
        /\ i < j
        /\ log[p][i] = Effect("fs", "extract", "ok")
        /\ log[p][j] = Effect("fs", "copy", "no_source")

\* C20: an install that returns success has copied to the final path the
\* binary of the version it selected, and an install whose extraction
\* succeeded never fails at the place step for want of its extracted file,
\* also with a second install running.
C20_PlacesOwnVersionConcurrently ==
    \A p \in callers :
        /\ result[p].kind = "ok" => copySrc[p].payload = version[p]
        /\ ~LostExtractedFile(p)

\* The effect is a run of the installed binary for verification
IsVersionQuery(e) == e.op = "exec" /\ e.what = "version"

\* The effect is a failure of the permission fix-up
IsPermissionFailure(e) ==
    e \in {Effect("fs", "metadata", "failed"), Effect("fs", "chmod", "failed")}

\* In the log q, the copy to the final path finished, then the mode was set,
\* both before position i
ModeSetAfterCopy(q, i) ==
    \E k, j \in 1..(i - 1) :
        /\ k < j
        /\ q[k] = Effect("fs", "copy", "ok")
        /\ q[j] = Effect("fs", "chmod", "ok")

\* C21: on a unix target the installed binary is run for verification only
\* after the copy to the final path finished and its mode was then set to
\* 0755, which is the mode it has when it is run; a failure to read the
\* metadata or to set the mode ends the install with that error and without
\* running the binary; and the quarantine removal is attempted only after a
\* successful verification.
C21_ModeSetBeforeVerification ==
    /\ [](\A p \in callers :
            /\ IsUnix(target.os) =>
                 /\ \A i \in 1..Len(log[p]) :
                       IsVersionQuery(log[p][i]) => ModeSetAfterCopy(log[p], i)
                 /\ (\E i \in 1..Len(log[p]) : IsPermissionFailure(log[p][i])) =>
                       /\ pc[p] = "done"
                       /\ result[p].kind = "err"
                       /\ result[p].error \in {"Failed to get binary metadata",
                                               "Failed to set binary permissions"}
                       /\ \A i \in 1..Len(log[p]) : ~IsVersionQuery(log[p][i])
            /\ \A i \in 1..Len(log[p]) :
                  IsXattr(log[p][i]) =>
                      Before(log[p], i, Effect("exec", "version", "ok")))
    /\ [][\A p \in Procs :
            (IsUnix(target.os) /\ callers = {p}
                /\ pc[p] = "verify" /\ pc'[p] # "verify") =>
                binary.mode = Mode755]_vars

C21_Witness ==
    /\ target.os = "macos"
    /\ result["a"].kind = "ok"
    /\ copySrc["a"].mode = Mode644
    /\ binary.mode = Mode755
    /\ \E i \in 1..Len(log["a"]) : IsXattr(log["a"][i])

====
